---- MODULE Spec2Model ----
(***************************************************************************)
(* A model of py/webutil.py: the Flask request hooks (before_request,      *)
(* after_request, teardown, the 404 handler), the decorators               *)
(* login_required and local_dev_only, the reply helpers and the logging    *)
(* context filter.                                                         *)
(*                                                                         *)
(* Python values are modelled as follows.  None is the record None below.  *)
(* A dict or an object with attributes (session, g, request.headers) is a  *)
(* function whose DOMAIN is the set of keys it holds, so that `k in d` and *)
(* hasattr(o, k) are  k \in DOMAIN d.  A string is a sequence of atoms: a  *)
(* literal of the code is spelled character by character, a value that the *)
(* code only passes along (a path, a message) is one atom.  A log call is  *)
(* the record of its level, its format string and its arguments.           *)
(***************************************************************************)
EXTENDS Integers, Sequences, FiniteSets, TLC

VARIABLES
    pc,            \* position in the request lifecycle
    IS_LOCAL_DEV,  \* config.IS_LOCAL_DEV
    session,       \* flask.session, kept between the requests of one client
    req,           \* flask.request of the request in progress
    g,             \* flask.g of the request in progress
    dbconn,        \* db.database: [open, opens, closes] during this request
    log,           \* entries logged through `log` during this request
    response,      \* the response of this request, None until there is one
    rv,            \* what the view function returned, None if it did not run
    now,           \* time.time(), in ticks since the request arrived
    calls,         \* how many times the route handler ran in this request
    hdur,          \* ticks the route handler took
    odur,          \* ticks between the view's return and teardown
    hret,          \* what the route handler returned, None if it did not run
    asked,         \* is_role_atleast's call in this request: its role, its answer
    flow,          \* which way before_request went in this request
    prevUnknown,   \* the previous request had a session uid that did not resolve
    logged,        \* parameter logging alone: what is logged for req
    record         \* log filter alone: the log record after filter()

vars == <<pc, IS_LOCAL_DEV, session, req, g, dbconn, log, response, rv, now,
          calls, hdur, odur, hret, asked, flow, prevUnknown, logged, record>>

\* what the request lifecycle leaves alone
otherVars == <<logged, record>>

--------------------------------------------------------------------------
(* Bounds of the model. *)

\* the longest a route handler runs, in ticks
MaxDur == 3
\* the longest the work between the handler's return and teardown takes
MaxOverhead == 2
\* the longest before_request takes to reach the start of its timer
MaxBefore == 1

\* teardown's threshold of 1.0 second, in ticks of half a second
SlowLimit == 2
\* before_request keeps the first 1000 characters of the parameters
LogLimit == 1000

--------------------------------------------------------------------------
(* Python values. *)

None == [type |-> "NoneType"]

EmptyDict == <<>>

Put(d, k, v) == (k :> v) @@ d

\* the string '' (what local_dev_only returns outside local development)
EmptyStr == [type |-> "str", val |-> <<>>]

\* an exception raised instead of a value
Raise == [type |-> "raise"]

Digit == [d \in 0..9 |-> CASE d = 0 -> "0" [] d = 1 -> "1" [] d = 2 -> "2"
                           [] d = 3 -> "3" [] d = 4 -> "4" [] d = 5 -> "5"
                           [] d = 6 -> "6" [] d = 7 -> "7" [] d = 8 -> "8"
                           [] d = 9 -> "9"]

\* str(n) for a natural number n, character by character
RECURSIVE IntStr(_)
IntStr(n) == IF n < 10 THEN <<Digit[n]>>
             ELSE IntStr(n \div 10) \o <<Digit[n % 10]>>

GET == <<"G", "E", "T">>
POST == <<"P", "O", "S", "T">>

--------------------------------------------------------------------------
(* The collaborators: db users, the routes of the application. *)

Uids == {1, 2}
Roles == {"disabled", "editor", "superuser"}

User(uid, role) == [type |-> "User", id |-> uid, role |-> role]

\* str(user), as "Unauthorized! ... user={}" formats it
UserStr(me) == IF me = None THEN "None" ELSE "<User>"

\* the sessions a client can hold: none, or the uid stored at login
Sessions == {EmptyDict} \cup {[userid |-> u] : u \in Uids}

\* the route handler that the decorators wrap
Handler == [type |-> "function", name |-> "handler"]

\* the status codes a route handler answers with
Statuses == {100, 199, 200, 302, 398, 399, 400, 404, 500, 599, 600}

--------------------------------------------------------------------------
(* Request parameters: JSON bodies, query strings and forms. *)

Str(chars) == [type |-> "str", val |-> chars]

\* a dict: its items, <<key, value>>, in insertion order
Dict(items) == [type |-> "dict", items |-> items]

List(elems) == [type |-> "list", elems |-> elems]

\* a werkzeug MultiDict: <<key, <<value, ...>>>> in insertion order
MultiDict(immutable, items) ==
    [type |-> "MultiDict", immutable |-> immutable, items |-> items]

EmptyArgs == MultiDict(TRUE, <<>>)

\* bool(v)
Truthy(v) ==
    CASE v.type = "NoneType" -> FALSE
      [] v.type = "str" -> v.val # <<>>
      [] v.type = "dict" -> v.items # <<>>
      [] v.type = "list" -> v.elems # <<>>
      [] v.type = "MultiDict" -> v.items # <<>>

\* a or b
Or(a, b) == IF Truthy(a) THEN a ELSE b

\* k in v, for a string k
In(k, v) ==
    CASE v.type = "dict" -> \E i \in 1..Len(v.items) : v.items[i][1] = k
      [] v.type = "MultiDict" -> \E i \in 1..Len(v.items) : v.items[i][1] = k
      [] v.type = "list" -> \E i \in 1..Len(v.elems) : v.elems[i] = Str(k)

\* v.copy(): a shallow copy; of an ImmutableMultiDict, a MultiDict
Copy(v) == IF v.type = "MultiDict" THEN MultiDict(FALSE, v.items) ELSE v

\* v[k] = x for a key k that v holds: Raise where v is a list
SetItem(v, k, x) ==
    CASE v.type = "dict" ->
            Dict([i \in 1..Len(v.items) |->
                    IF v.items[i][1] = k THEN <<k, x>> ELSE v.items[i]])
      [] v.type = "MultiDict" ->
            MultiDict(v.immutable,
                      [i \in 1..Len(v.items) |->
                         IF v.items[i][1] = k THEN <<k, <<x>>>> ELSE v.items[i]])
      [] v.type = "list" -> Raise

Quoted(chars) == <<"'">> \o chars \o <<"'">>

\* ", ".join(parts)
RECURSIVE Join(_)
Join(parts) ==
    IF parts = <<>> THEN <<>>
    ELSE IF Len(parts) = 1 THEN parts[1]
    ELSE parts[1] \o <<",", " ">> \o Join(Tail(parts))

\* what the <<key, values>> items of a MultiDict list as (key, value) pairs
RECURSIVE MultiPairs(_)
MultiPairs(items) ==
    IF items = <<>> THEN <<>>
    ELSE [j \in 1..Len(items[1][2]) |-> <<items[1][1], items[1][2][j]>>]
            \o MultiPairs(Tail(items))

\* repr(v)
RECURSIVE Repr(_)
Repr(v) ==
    CASE v.type = "NoneType" -> <<"N", "o", "n", "e">>
      [] v.type = "str" -> Quoted(v.val)
      [] v.type = "dict" ->
            <<"{">> \o Join([i \in 1..Len(v.items) |->
                               Quoted(v.items[i][1]) \o <<":", " ">>
                                   \o Repr(v.items[i][2])]) \o <<"}">>
      [] v.type = "list" ->
            <<"[">> \o Join([i \in 1..Len(v.elems) |-> Repr(v.elems[i])])
                \o <<"]">>
      [] v.type = "MultiDict" ->
            (IF v.immutable
                 THEN <<"I", "m", "m", "u", "t", "a", "b", "l", "e">>
                 ELSE <<>>)
                \o <<"M", "u", "l", "t", "i", "D", "i", "c", "t", "(", "[">>
                \o Join([i \in 1..Len(MultiPairs(v.items)) |->
                           <<"(">> \o Quoted(MultiPairs(v.items)[i][1])
                               \o <<",", " ">>
                               \o Repr(MultiPairs(v.items)[i][2]) \o <<")">>])
                \o <<"]", ")">>

\* str(v): a string is itself, anything else its repr
PyStr(v) == IF v.type = "str" THEN v.val ELSE Repr(v)

\* s[:n]
Prefix(s, n) == IF Len(s) <= n THEN s ELSE SubSeq(s, 1, n)

password == <<"p", "a", "s", "s", "w", "o", "r", "d">>
passwd == <<"p", "a", "s", "s", "w", "d">>
pwd == <<"p", "w", "d">>

secret_keys == <<password, passwd, pwd>>

\* the placeholder written over a secret
Redacted == Str(<<"X">>)

\* the loop over secret_keys from its i-th key on: the clone after it (None
\* if nothing was cloned), or Raise
RECURSIVE RedactFrom(_, _, _)
RedactFrom(i, p, cloned) ==
    IF i > Len(secret_keys) THEN cloned
    ELSE IF In(secret_keys[i], p)
         THEN LET c == IF ~Truthy(cloned) THEN Copy(p) ELSE cloned
                  set == SetItem(c, secret_keys[i], Redacted)
              IN  IF set = Raise THEN Raise ELSE RedactFrom(i + 1, p, set)
         ELSE RedactFrom(i + 1, p, cloned)

\* lines 98-110 of before_request: the string logged for the parameters of
\* request r, or Raise
LoggedParams(r) ==
    LET p == Or(r.json, Or(r.args, r.form))
        cloned == IF Truthy(p) THEN RedactFrom(1, p, None) ELSE None
        q == IF Truthy(cloned) THEN cloned ELSE p
    IN  IF cloned = Raise THEN Raise
        ELSE Prefix(PyStr(Or(q, Str(<<>>))), LogLimit)

--------------------------------------------------------------------------
(* The decorators. *)

\* login_required(func, role): without func, the decorator for that role;
\* with func, the wrapper `inner`
login_required(func, role) ==
    IF func = None
    THEN [type |-> "partial", of |-> "login_required", role |-> role]
    ELSE [type |-> "function", name |-> "login_required.inner",
          role |-> role, func |-> func]

\* calling what login_required(role=...) returned on the function below it
CallPartial(p, func) == login_required(func, p.role)

\* local_dev_only(func): the wrapper `inner`
local_dev_only(func) ==
    [type |-> "function", name |-> "local_dev_only.inner", func |-> func]

\* the role that the route "/admin" asks for
AdminRole == Str(<<"a", "d", "m", "i", "n">>)

\* the application's routes: undecorated, @login_required,
\* @login_required(role='admin'), @local_dev_only
Routes ==
    ("/open" :> Handler)
        @@ ("/me" :> login_required(Handler, None))
        @@ ("/admin" :> CallPartial(login_required(None, AdminRole), Handler))
        @@ ("/dev" :> local_dev_only(Handler))

Paths == DOMAIN Routes \cup {"/nope"}

--------------------------------------------------------------------------
(* Replies. *)

\* jsonify({"err": err}), httpcode
JsonError(err, httpcode) ==
    [type |-> "tuple", json |-> TRUE, body |-> [err |-> err],
     status |-> httpcode]

\* "{}: {}".format(httpcode, errmsg)
CodeMessage(httpcode, errmsg) == IntStr(httpcode) \o <<":", " ">> \o errmsg

error_reply(errmsg, httpcode) ==
    [log |-> <<[level |-> "error", msg |-> errmsg]>>,
     ret |-> JsonError(CodeMessage(httpcode, errmsg), httpcode)]

warn_reply(errmsg, httpcode) ==
    [log |-> <<[level |-> "warning", msg |-> errmsg]>>,
     ret |-> JsonError(CodeMessage(httpcode, errmsg), httpcode)]

\* the names bound in the module's namespace when a request is served: its
\* imports (lines 8-20), `app` and its own definitions
ModuleGlobals ==
    {"time", "peewee", "functools", "Flask", "request", "session", "g",
     "redirect", "abort", "jsonify", "Session", "JSONEncoder", "db", "config",
     "datetime", "logging", "log", "app", "login_required", "local_dev_only",
     "_check_user_role", "error_reply", "warn_reply", "get_agent", "get_ip",
     "before_request", "after_request", "teardown", "page_not_found",
     "MyLogContextFilter", "init_logging", "MyJSONEncoder"}

\* a variant of Unauthorized that only asks for a user, whatever the role
Unauthorized_AnyRole(me, atleast) == me = None

\* `not g.MYSELF or not g.MYSELF.is_role_atleast(role)`, where atleast is
\* what is_role_atleast answers for this user and role
Unauthorized(me, atleast) == me = None \/ ~atleast

\* _check_user_role(role): None, or the 401 reply and its log entry
_check_user_role(r, me, atleast) ==
    IF Unauthorized(me, atleast)
    THEN warn_reply(<<"Unauthorized! ">> \o r.method
                        \o <<" ", r.path, " user=", UserStr(me)>>, 401)
    ELSE [log |-> <<>>, ret |-> None]

\* Flask turns what a view or a hook returned into the response
MakeResponse(ret) ==
    IF ret.type = "str"
    THEN [status |-> 200, json |-> FALSE, body |-> ret.val]
    ELSE [status |-> ret.status, json |-> ret.json, body |-> ret.body]

\* Flask answers an exception that nothing handles with a 500 page
ServerError ==
    [status |-> 500, json |-> FALSE, body |-> <<"Internal Server Error">>]

\* what the route handler returns with status s
HandlerResult(s) ==
    [type |-> "tuple", json |-> TRUE, body |-> [data |-> <<"ok">>],
     status |-> s]

--------------------------------------------------------------------------
(* before_request. *)

\* db.database.connection() on a closed connection
Connect(conn) ==
    IF conn.open THEN conn ELSE [conn EXCEPT !.open = TRUE, !.opens = @ + 1]

\* db.database.close(): closes an open connection, nothing otherwise
Close(conn) ==
    IF conn.open THEN [conn EXCEPT !.open = FALSE, !.closes = @ + 1] ELSE conn

\* a variant of IsDisabled that compares with another role name
IsDisabled_OtherName(me) == me # None /\ me.role = "inactive"

\* `me and me.role == "disabled"`
IsDisabled(me) == me # None /\ me.role = "disabled"

\* line 130: webutil.error_reply("unknown uid"); the name webutil has to be
\* looked up before error_reply is called
UnknownUidReply ==
    IF "webutil" \in ModuleGlobals
    THEN error_reply(<<"unknown uid">>, 400)
    ELSE [log |-> <<>>, ret |-> Raise]

\* lines 132-141, with the user `me` loaded: the hook's result from the
\* request r, g as it is so far (gg), the log so far and the connection
LoadedUser(r, gg, lg, conn, sess, t, me) ==
    LET g1 == Put(Put(Put(gg, "MYSELF", me), "ISLOGGED", me # None),
                  "IS_SUPER_USER",
                  IF me = None THEN None ELSE me.role = "superuser")
    IN  IF IsDisabled(me)
        THEN [ret |-> JsonError(<<"account disabled">>, 400), g |-> g1,
              log |-> lg \o <<[level |-> "warning",
                               msg |-> <<"account disabled">>]>>,
              dbconn |-> conn, session |-> sess, flow |-> "disabled"]
        ELSE [ret |-> None, g |-> Put(g1, "t1", t), log |-> lg,
              dbconn |-> conn, session |-> sess, flow |-> "ok"]

\* before_request() for request r at time t: what it returns (None, a reply,
\* or Raise) and what it leaves in g, the session, the log and the
\* connection.  connOK: g.db.connection() succeeds; lookup: what
\* db.get_user answers, a User or Raise
before_request(r, sess, conn, t, connOK, lookup) ==
    LET p == LoggedParams(r)
        line == [level |-> "info",
                 msg |-> Prefix(r.method, 2) \o <<" ", r.path, " ">> \o p]
        g1 == Put(EmptyDict, "db", "database")
        g2 == Put(Put(g1, "HOST",
                      IF "X-Real-Host" \in DOMAIN r.headers
                      THEN r.headers["X-Real-Host"] ELSE ""),
                  "MYSELF", None)
    IN  IF p = Raise
        THEN [ret |-> Raise, g |-> EmptyDict, log |-> <<>>, dbconn |-> conn,
              session |-> sess, flow |-> "params_failed"]
        ELSE IF ~connOK
        THEN [ret |-> Raise, g |-> g1, log |-> <<line>>, dbconn |-> conn,
              session |-> sess, flow |-> "connect_failed"]
        ELSE IF "userid" \in DOMAIN sess
        THEN IF lookup = Raise
             THEN [ret |-> UnknownUidReply.ret, g |-> g2,
                   log |-> <<line>> \o UnknownUidReply.log,
                   dbconn |-> Connect(conn), session |-> EmptyDict,
                   flow |-> "unknown_uid"]
             ELSE LoadedUser(r, g2, <<line>>, Connect(conn), sess, t, lookup)
        ELSE LoadedUser(r, g2, <<line>>, Connect(conn), sess, t, None)

--------------------------------------------------------------------------
(* after_request, teardown, the 404 handler. *)

\* the log method after_request picks for a status code, "none" for None
LogMethod(status) ==
    IF 400 <= status /\ status <= 599 THEN "error"
    ELSE IF ~(200 <= status /\ status < 399) THEN "warning"
    ELSE "none"

\* after_request(response): what it logs and what it returns
after_request(resp, r) ==
    [log |-> IF LogMethod(resp.status) # "none"
             THEN <<[level |-> LogMethod(resp.status),
                     msg |-> <<" ", " ">> \o IntStr(resp.status) \o <<" ">>
                                 \o r.method \o <<" ", r.url>>]>>
             ELSE <<>>,
     ret |-> resp]

\* a variant of TeardownDb that closes only what a timed request opened
TeardownDb_TimedOnly(gg, conn) ==
    IF "db" \in DOMAIN gg /\ "t1" \in DOMAIN gg THEN Close(conn) ELSE conn

\* teardown, lines 168-169
TeardownDb(gg, conn) == IF "db" \in DOMAIN gg THEN Close(conn) ELSE conn

\* a variant of IsSlow that includes the threshold
IsSlow_AtLeast(delta) == delta >= SlowLimit

\* `delta > 1.0`
IsSlow(delta) == delta > SlowLimit

\* teardown, lines 173-176, at time t
TeardownSlow(gg, r, t) ==
    IF "t1" \in DOMAIN gg /\ IsSlow(t - gg.t1)
    THEN <<[level |-> "warning",
            msg |-> <<"SLOW! ", r.path, " time=">> \o IntStr(t - gg.t1)]>>
    ELSE <<>>

\* page_not_found(error)
page_not_found(r) == JsonError(<<"4", "0", "4", ":", " ">> \o <<r.path>>, 404)

--------------------------------------------------------------------------
(* The request lifecycle. *)

\* the JSON bodies of the requests of the lifecycle: none, an object with a
\* secret, an array that holds the name of a secret key
Bodies ==
    {None, Dict(<<<<pwd, Str(<<"s", "1">>)>>>>), List(<<Str(pwd)>>)}

Requests ==
    {[method |-> m, path |-> p, url |-> "http://api" \o p, json |-> j,
      args |-> EmptyArgs, form |-> EmptyArgs, headers |-> h] :
        m \in {GET, POST}, p \in Paths, j \in Bodies,
        h \in {EmptyDict, "X-Real-Host" :> "api.example.org"}}

HandlerOutcomes == {HandlerResult(s) : s \in Statuses} \cup {Raise}

NoConnection == [open |-> FALSE, opens |-> 0, closes |-> 0]

\* nothing is left of an earlier request
FreshContext ==
    /\ pc = "idle"
    /\ g = EmptyDict
    /\ dbconn = NoConnection
    /\ log = <<>>
    /\ response = None
    /\ rv = None
    /\ now = 0
    /\ calls = 0
    /\ hdur = 0
    /\ odur = 0
    /\ hret = None
    /\ asked = None
    /\ flow = "none"
    /\ prevUnknown = FALSE

\* a request arrives: a new request context and a new g
NewRequest ==
    /\ pc = "idle"
    /\ req' \in Requests
    /\ pc' = "before"
    /\ UNCHANGED otherVars
    /\ UNCHANGED <<IS_LOCAL_DEV, session, g, dbconn, log, response, rv, now,
                   calls, hdur, odur, hret, asked, flow, prevUnknown>>

\* Flask runs before_request: a value it returns is the response and the
\* view is skipped, an exception it raises is answered with a 500
BeforeRequest ==
    /\ pc = "before"
    /\ \E connOK \in BOOLEAN, b \in 0..MaxBefore,
          lookup \in IF "userid" \in DOMAIN session
                     THEN {User(session.userid, role) : role \in Roles}
                              \cup {Raise}
                     ELSE {None} :
         LET o == before_request(req, session, dbconn, now + b, connOK,
                                 lookup)
         IN  /\ now' = now + b
             /\ g' = o.g
             /\ session' = o.session
             /\ log' = o.log
             /\ dbconn' = o.dbconn
             /\ flow' = o.flow
             /\ response' = IF o.ret = None THEN None
                            ELSE IF o.ret = Raise THEN ServerError
                            ELSE MakeResponse(o.ret)
             /\ pc' = IF o.ret = None THEN "dispatch" ELSE "after"
    /\ UNCHANGED otherVars
    /\ UNCHANGED <<IS_LOCAL_DEV, req, rv, calls, hdur, odur, hret, asked,
                   prevUnknown>>

\* the route handler runs for d ticks and returns out or raises; it may
\* store another session (a login, a logout)
RunHandler(d, out, sess) ==
    /\ calls' = calls + 1
    /\ hdur' = d
    /\ now' = now + d
    /\ session' = sess
    /\ hret' = out

\* Flask's answer to what the view returned, or to the exception it raised
ViewResponse(ret) == IF ret = Raise THEN ServerError ELSE MakeResponse(ret)

\* no route matches the path: Flask calls the 404 error handler
PageNotFound ==
    /\ pc = "dispatch"
    /\ req.path \notin DOMAIN Routes
    /\ response' = MakeResponse(page_not_found(req))
    /\ pc' = "after"
    /\ UNCHANGED otherVars
    /\ UNCHANGED <<IS_LOCAL_DEV, session, req, g, dbconn, log, rv, now, calls,
                   hdur, odur, hret, asked, flow, prevUnknown>>

\* the route's view is the undecorated handler
CallHandler ==
    /\ pc = "dispatch"
    /\ req.path \in DOMAIN Routes
    /\ Routes[req.path].name = "handler"
    /\ \E d \in 0..MaxDur, out \in HandlerOutcomes, sess \in Sessions :
         RunHandler(d, out, sess)
    /\ rv' = hret'
    /\ response' = ViewResponse(rv')
    /\ pc' = "after"
    /\ UNCHANGED otherVars
    /\ UNCHANGED <<IS_LOCAL_DEV, req, g, dbconn, log, odur, asked, flow,
                   prevUnknown>>

\* the route's view is login_required's inner:
\* _check_user_role(role) or func(*args, **kwargs)
CallLoginRequired ==
    /\ pc = "dispatch"
    /\ req.path \in DOMAIN Routes
    /\ Routes[req.path].name = "login_required.inner"
    /\ \E atleast \in IF g.MYSELF = None THEN {FALSE} ELSE BOOLEAN :
         LET c == _check_user_role(req, g.MYSELF, atleast)
         IN  /\ asked' = IF g.MYSELF = None THEN None
                         ELSE [role |-> Routes[req.path].role,
                               answer |-> atleast]
             /\ log' = log \o c.log
             /\ IF c.ret # None
                THEN /\ rv' = c.ret
                     /\ UNCHANGED <<session, now, calls, hdur, hret>>
                ELSE /\ \E d \in 0..MaxDur, out \in HandlerOutcomes,
                           sess \in Sessions :
                          RunHandler(d, out, sess)
                     /\ rv' = hret'
    /\ response' = ViewResponse(rv')
    /\ pc' = "after"
    /\ UNCHANGED otherVars
    /\ UNCHANGED <<IS_LOCAL_DEV, req, g, dbconn, odur, flow, prevUnknown>>

\* a variant of DevEnabled that lets every call through
DevEnabled_Always(dev) == TRUE

\* the condition of local_dev_only's inner: `if config.IS_LOCAL_DEV`
DevEnabled(dev) == dev

\* the route's view is local_dev_only's inner:
\* func(*args, **kwargs) if config.IS_LOCAL_DEV else ''
CallLocalDevOnly ==
    /\ pc = "dispatch"
    /\ req.path \in DOMAIN Routes
    /\ Routes[req.path].name = "local_dev_only.inner"
    /\ IF DevEnabled(IS_LOCAL_DEV)
       THEN /\ \E d \in 0..MaxDur, out \in HandlerOutcomes,
                  sess \in Sessions :
                 RunHandler(d, out, sess)
            /\ rv' = hret'
       ELSE /\ rv' = EmptyStr
            /\ UNCHANGED <<session, now, calls, hdur, hret>>
    /\ response' = ViewResponse(rv')
    /\ pc' = "after"
    /\ UNCHANGED otherVars
    /\ UNCHANGED <<IS_LOCAL_DEV, req, g, dbconn, log, odur, asked, flow,
                   prevUnknown>>

\* Flask runs after_request on the response, whoever produced it; the
\* session is saved and the response finalised, which takes o ticks
AfterRequest ==
    /\ pc = "after"
    /\ \E o \in 0..MaxOverhead : now' = now + o /\ odur' = o
    /\ log' = log \o after_request(response, req).log
    /\ response' = after_request(response, req).ret
    /\ pc' = "teardown"
    /\ UNCHANGED otherVars
    /\ UNCHANGED <<IS_LOCAL_DEV, session, req, g, dbconn, rv, calls, hdur,
                   hret, asked, flow, prevUnknown>>

\* the request context is popped: teardown(error)
Teardown ==
    /\ pc = "teardown"
    /\ dbconn' = TeardownDb(g, dbconn)
    /\ log' = log \o TeardownSlow(g, req, now)
    /\ pc' = "done"
    /\ UNCHANGED otherVars
    /\ UNCHANGED <<IS_LOCAL_DEV, session, req, g, response, rv, now, calls,
                   hdur, odur, hret, asked, flow, prevUnknown>>

\* the request has ended: its context and its g are discarded
Finish ==
    /\ pc = "done"
    /\ pc' = "idle"
    /\ req' = None
    /\ g' = EmptyDict
    /\ dbconn' = [dbconn EXCEPT !.opens = 0, !.closes = 0]
    /\ log' = <<>>
    /\ response' = None
    /\ rv' = None
    /\ now' = 0
    /\ calls' = 0
    /\ hdur' = 0
    /\ odur' = 0
    /\ hret' = None
    /\ asked' = None
    /\ flow' = "none"
    /\ prevUnknown' = (flow = "unknown_uid")
    /\ UNCHANGED otherVars
    /\ UNCHANGED <<IS_LOCAL_DEV, session>>

Init ==
    /\ FreshContext
    /\ IS_LOCAL_DEV \in BOOLEAN
    /\ session \in Sessions
    /\ req = None
    /\ logged = None
    /\ record = None

Next ==
    \/ NewRequest
    \/ BeforeRequest
    \/ PageNotFound
    \/ CallHandler
    \/ CallLoginRequired
    \/ CallLocalDevOnly
    \/ AfterRequest
    \/ Teardown
    \/ Finish

Spec == Init /\ [][Next]_vars

--------------------------------------------------------------------------
(* Parameter logging alone: lines 98-110 of before_request applied to the  *)
(* parameters a request can carry.                                         *)

\* the most items a payload holds
MaxItems == 2

user == <<"u", "s", "e", "r">>

\* the values sent under secret keys, and the value sent under other keys
SecretValues == {Str(<<"s", "1">>), Str(<<"s", "2">>)}
PlainValue == Str(<<"b", "o", "b">>)

SecretKeys == {secret_keys[i] : i \in 1..Len(secret_keys)}

\* one key with a string value
FlatItems ==
    {<<k, v>> : k \in SecretKeys, v \in SecretValues} \cup {<<user, PlainValue>>}

\* sequences of 1..MaxItems items with distinct keys
ItemSeqs(items) ==
    {q \in UNION {[1..n -> items] : n \in 1..MaxItems} :
        \A i, j \in 1..Len(q) : i # j => q[i][1] # q[j][1]}

FlatDicts == {Dict(q) : q \in ItemSeqs(FlatItems)}

\* a value of 1000 characters, which fills the logged prefix
LongValue == Str([i \in 1..LogLimit |-> "a"])

\* JSON bodies: objects of strings, objects holding an object or an array of
\* objects, arrays, an object with a long value before a secret
JsonBodies ==
    FlatDicts
        \cup {Dict(<<<<k, Dict(<<it>>)>>>>) : k \in {user, password},
                                           it \in FlatItems}
        \cup {Dict(<<<<user, List(<<Dict(<<it>>)>>)>>>>) : it \in FlatItems}
        \cup {List(<<Dict(<<it>>)>>) : it \in FlatItems}
        \cup {List(<<Str(k)>>) : k \in SecretKeys}
        \cup {Dict(<<<<user, LongValue>>, <<pwd, v>>>>) : v \in SecretValues}

\* query strings and forms: keys with one or two values
MultiItems ==
    {<<k, vs>> : k \in SecretKeys,
                 vs \in UNION {[1..n -> SecretValues] : n \in 1..2}}
        \cup {<<user, <<PlainValue>>>>}

MultiDicts == {MultiDict(TRUE, q) : q \in ItemSeqs(MultiItems)}

ParamRequest(j, a, f) ==
    [method |-> POST, path |-> "/open", url |-> "http://api/open",
     json |-> j, args |-> a, form |-> f, headers |-> EmptyDict]

\* requests with one kind of parameters, and with several kinds at once
ParamRequests ==
    {ParamRequest(j, EmptyArgs, EmptyArgs) : j \in JsonBodies}
        \cup {ParamRequest(None, a, EmptyArgs) : a \in MultiDicts}
        \cup {ParamRequest(None, EmptyArgs, f) : f \in MultiDicts}
        \cup {ParamRequest(j, a, f) :
                j \in {None, Dict(<<>>), Dict(<<<<user, PlainValue>>>>)},
                a \in {EmptyArgs,
                       MultiDict(TRUE, <<<<pwd, <<Str(<<"s", "1">>)>>>>>>)},
                f \in {EmptyArgs,
                       MultiDict(TRUE, <<<<passwd, <<Str(<<"s", "2">>)>>>>>>)}}

InitParams ==
    /\ FreshContext
    /\ IS_LOCAL_DEV = FALSE
    /\ session = EmptyDict
    /\ req \in ParamRequests
    /\ logged = None
    /\ record = None

\* before_request computes the string it logs for the parameters
LogParams ==
    /\ logged = None
    /\ logged' = IF LoggedParams(req) = Raise THEN Raise
                 ELSE [type |-> "logged", val |-> LoggedParams(req)]
    /\ UNCHANGED <<pc, IS_LOCAL_DEV, session, req, g, dbconn, log, response,
                   rv, now, calls, hdur, odur, hret, asked, flow, prevUnknown,
                   record>>

NextParams == LogParams

SpecParams == InitParams /\ [][NextParams]_vars

--------------------------------------------------------------------------
(* The log filter alone: MyLogContextFilter.filter applied to a record     *)
(* logged inside or outside a request.                                     *)

\* d.get(k), d.get(k, default)
Get(d, k, default) == IF k \in DOMAIN d THEN d[k] ELSE default

\* a variant of get_ip that prefers the socket address
get_ip_SocketFirst(r) == Or(r.remote_addr, Get(r.headers, "X-Real-IP", None))

\* get_ip(): request.headers.get('X-Real-IP') or request.remote_addr
get_ip(r) == Or(Get(r.headers, "X-Real-IP", None), r.remote_addr)

\* the uid of a worker's record
WorkerUid == Str(<<" ", " ", "-", "W", "O", "R", "K", "E", "R">>)

Anon == Str(<<"a", "n", "o", "n">>)

Local == Str(<<"l", "o", "c", "a", "l">>)

\* a session's uid, an integer
PyInt(n) == [type |-> "int", val |-> n]

\* `"local" if config.IS_LOCAL_DEV else ip`
RecordIp(dev, ip) == IF dev THEN Local ELSE ip

\* filter(record): what it returns and the fields it sets; r is the request,
\* None outside a request
filter(r, sess, dev) ==
    LET ip == IF r # None THEN get_ip(r) ELSE Str(<<>>)
        uid == IF r # None
               THEN (IF "userid" \in DOMAIN sess THEN PyInt(sess.userid)
                     ELSE Anon)
               ELSE WorkerUid
    IN  [ret |-> TRUE, ip |-> RecordIp(dev, ip), uid |-> uid]

\* the addresses of clients and of the proxy in front of the application
ClientIps == {Str(<<"10.0.0.1">>), Str(<<"10.0.0.2">>)}
ProxyIps == {Str(<<"127.0.0.1">>), Str(<<"192.168.0.9">>)}

\* the requests a record is logged in: with an X-Real-IP header (which can
\* be empty) or without, from a known socket address or none
FilterRequests ==
    {[method |-> GET, path |-> "/open", url |-> "http://api/open",
      json |-> None, args |-> EmptyArgs, form |-> EmptyArgs,
      headers |-> h, remote_addr |-> a] :
        h \in {EmptyDict} \cup {"X-Real-IP" :> ip : ip \in ClientIps \cup {Str(<<>>)}},
        a \in ProxyIps \cup {None}}

InitFilter ==
    /\ FreshContext
    /\ IS_LOCAL_DEV \in BOOLEAN
    /\ \/ req = None /\ session = EmptyDict
       \/ req \in FilterRequests /\ session \in Sessions
    /\ logged = None
    /\ record = None

\* a record is logged and passes through the filter
Filter ==
    /\ record = None
    /\ record' = filter(req, session, IS_LOCAL_DEV)
    /\ UNCHANGED <<pc, IS_LOCAL_DEV, session, req, g, dbconn, log, response,
                   rv, now, calls, hdur, odur, hret, asked, flow, prevUnknown,
                   logged>>

NextFilter == Filter

SpecFilter == InitFilter /\ [][NextFilter]_vars

--------------------------------------------------------------------------
(* Properties of the request lifecycle, checked under Spec. *)

\* the request has its response
Answered == pc \in {"after", "teardown", "done"}

\* the string err is "<code>: <message>"
HasCode(err, code) ==
    /\ Len(err) > Len(IntStr(code)) + 2
    /\ SubSeq(err, 1, Len(IntStr(code))) = IntStr(code)
    /\ SubSeq(err, Len(IntStr(code)) + 1, Len(IntStr(code)) + 2) = <<":", " ">>

\* resp is the JSON reply {"err": "<code>: <message>"} with status code
ErrShape(resp, code) ==
    /\ resp.status = code
    /\ resp.json
    /\ "err" \in DOMAIN resp.body
    /\ HasCode(resp.body.err, code)

\* the log entries whose message starts with the atom `first`
EntriesFrom(first) == {i \in 1..Len(log) : log[i].msg[1] = first}

\* the log entries after_request wrote: "  {} {} {}"
AfterEntries ==
    {i \in 1..Len(log) :
        Len(log[i].msg) > 2 /\ log[i].msg[1] = " " /\ log[i].msg[2] = " "}

LoginRoutes == {"/me", "/admin"}

\* C1: a request whose session uid does not resolve gets the session cleared
\* and the 400 JSON reply "unknown uid" without the handler running, and the
\* next request of the session has no userid and no g.MYSELF.
C1_UnknownUidReply ==
    /\ (Answered /\ flow = "unknown_uid") =>
          /\ DOMAIN session = {}
          /\ calls = 0
          /\ response.status = 400
          /\ response.json
          /\ \E i \in 1..Len(response.body.err) :
                response.body.err[i] = "unknown uid"
    /\ (prevUnknown /\ pc = "before") => "userid" \notin DOMAIN session
    /\ (prevUnknown /\ pc = "dispatch") => g.MYSELF = None

\* C2: behind login_required, bare or with a role, the handler runs only
\* for a user whose is_role_atleast(role) holds; every other call gets the
\* 401 JSON reply and one logged warning, and the handler does not run.
C2_LoginRequired ==
    (Answered /\ flow = "ok" /\ req.path \in LoginRoutes) =>
        /\ calls = IF g.MYSELF # None /\ asked # None /\ asked.answer
                   THEN 1 ELSE 0
        /\ asked # None =>
              asked.role = IF req.path = "/me" THEN None ELSE AdminRole
        /\ calls = 0 =>
              /\ hret = None
              /\ ErrShape(response, 401)
              /\ Cardinality(EntriesFrom("Unauthorized! ")) = 1
              /\ \A i \in EntriesFrom("Unauthorized! ") :
                    log[i].level = "warning"
        /\ calls = 1 => rv = hret /\ EntriesFrom("Unauthorized! ") = {}

\* the 401 of a user whose role is below the one asked for
C2_Witness ==
    /\ pc = "done"
    /\ flow = "ok"
    /\ req.path = "/admin"
    /\ g.MYSELF # None
    /\ asked # None
    /\ ~asked.answer
    /\ calls = 0
    /\ response.status = 401

\* C3: a request of a user whose role is "disabled" is answered 400 by
\* before_request and never reaches a view, whatever the route.
C3_DisabledRejected ==
    ("MYSELF" \in DOMAIN g /\ g.MYSELF # None /\ g.MYSELF.role = "disabled") =>
        /\ Answered
        /\ calls = 0
        /\ rv = None
        /\ response.status = 400

\* a disabled user asked for the role-protected route and got the 400
C3_Witness ==
    /\ pc = "done"
    /\ req.path = "/admin"
    /\ flow = "disabled"
    /\ g.MYSELF # None
    /\ g.MYSELF.role = "disabled"
    /\ response.status = 400
    /\ calls = 0

\* C4: a connection that before_request opened stays open until teardown
\* and is closed there exactly once, on every path; no request ends or
\* starts with an open connection.
C4_ConnectionClosed ==
    /\ dbconn.opens <= 1
    /\ dbconn.closes <= dbconn.opens
    /\ (pc \in {"dispatch", "after", "teardown"} /\ dbconn.opens = 1) =>
          dbconn.open /\ dbconn.closes = 0
    /\ pc = "done" => ~dbconn.open /\ dbconn.closes = dbconn.opens
    /\ pc \in {"idle", "before"} => ~dbconn.open

\* the handler raised and the connection was closed all the same
C4_Witness ==
    /\ pc = "done"
    /\ hret = Raise
    /\ dbconn.opens = 1
    /\ dbconn.closes = 1
    /\ ~dbconn.open

\* C6: every error reply of the module is the JSON {"err": "<code>: <msg>"}
\* whose code is the status: 400 for an unknown uid and a disabled account,
\* 401 for a failed authorization, 404 for an unmatched route.
C6_ErrorBodyShape ==
    Answered =>
        /\ flow \in {"unknown_uid", "disabled"} => ErrShape(response, 400)
        /\ (flow = "ok" /\ req.path \in LoginRoutes /\ calls = 0) =>
              ErrShape(response, 401)
        /\ (flow = "ok" /\ req.path \notin DOMAIN Routes) =>
              ErrShape(response, 404)

\* the "SLOW!" entries of the log
SlowEntries == EntriesFrom("SLOW! ")

\* C7 as stated: a handler that took more than 1.0 second gives exactly one
\* "SLOW!" warning with the path and the elapsed time, a handler that ran
\* and took at most 1.0 second gives none, and a request that before_request
\* rejected gives none.
C7_SlowByHandlerTime ==
    pc = "done" =>
        /\ (calls = 1 /\ hdur > SlowLimit) =>
              /\ Cardinality(SlowEntries) = 1
              /\ \A i \in SlowEntries :
                    /\ log[i].level = "warning"
                    /\ log[i].msg[2] = req.path
        /\ (calls = 1 /\ hdur <= SlowLimit) => SlowEntries = {}
        /\ flow \in {"unknown_uid", "disabled"} => SlowEntries = {}

\* C7 amended: what counts is the time from the end of before_request to
\* teardown (the handler and what follows it).  A request that reached the
\* end of before_request gives exactly one "SLOW!" warning, in teardown, with
\* its path and that time, if that time is over 1.0 second, and none
\* otherwise; so a handler over 1.0 second always gives one.  A request that
\* before_request rejected gives none.
C7_SlowByElapsedTime ==
    /\ pc # "done" => SlowEntries = {}
    /\ pc = "done" =>
          /\ flow = "ok" =>
                IF hdur + odur > SlowLimit
                THEN /\ Cardinality(SlowEntries) = 1
                     /\ \A i \in SlowEntries :
                           /\ log[i].level = "warning"
                           /\ log[i].msg = <<"SLOW! ", req.path, " time=">>
                                               \o IntStr(hdur + odur)
                ELSE SlowEntries = {}
          /\ (calls = 1 /\ hdur > SlowLimit) => Cardinality(SlowEntries) = 1
          /\ flow # "ok" => SlowEntries = {}

\* a handler within 1.0 second whose request is logged as slow
C7_Witness ==
    /\ pc = "done"
    /\ calls = 1
    /\ hdur <= SlowLimit
    /\ Cardinality(SlowEntries) = 1

\* C8: after_request returns the response as it is and logs by its status:
\* one error entry with status, method and URL for 400..599, nothing for
\* 200..399, one warning entry for any other status.
C8_AfterRequestLog ==
    pc \in {"teardown", "done"} =>
        /\ (rv # None /\ rv # Raise) => response = MakeResponse(rv)
        /\ IF 200 <= response.status /\ response.status <= 399
           THEN AfterEntries = {}
           ELSE /\ Cardinality(AfterEntries) = 1
                /\ \A i \in AfterEntries :
                      /\ log[i].level =
                            IF 400 <= response.status /\ response.status <= 599
                            THEN "error" ELSE "warning"
                      /\ log[i].msg = <<" ", " ">> \o IntStr(response.status)
                                          \o <<" ">> \o req.method
                                          \o <<" ", req.url>>

\* C9: behind local_dev_only the handler runs exactly when
\* config.IS_LOCAL_DEV is set, and then the wrapper returns what the handler
\* returned; otherwise the wrapper returns '' and the handler does not run.
C9_LocalDevOnly ==
    (Answered /\ flow = "ok" /\ req.path = "/dev") =>
        /\ calls = IF IS_LOCAL_DEV THEN 1 ELSE 0
        /\ IS_LOCAL_DEV => hret # None /\ rv = hret
        /\ ~IS_LOCAL_DEV =>
              /\ hret = None
              /\ rv = EmptyStr
              /\ response.status = 200
              /\ response.body = <<>>

\* outside local development the wrapper answered '' without the handler
C9_Witness ==
    /\ pc = "done"
    /\ req.path = "/dev"
    /\ flow = "ok"
    /\ ~IS_LOCAL_DEV
    /\ calls = 0
    /\ rv = EmptyStr

--------------------------------------------------------------------------
(* Properties of parameter logging, checked under SpecParams. *)

\* hay contains needle
Contains(hay, needle) ==
    \E i \in 1..(Len(hay) - Len(needle) + 1) :
        SubSeq(hay, i, i + Len(needle) - 1) = needle

\* the strings that payload v holds under a secret key, at any depth
RECURSIVE SecretsIn(_)
SecretsIn(v) ==
    CASE v.type = "dict" ->
            UNION {(IF v.items[i][1] \in SecretKeys
                       /\ v.items[i][2].type = "str"
                    THEN {v.items[i][2].val} ELSE {})
                       \cup SecretsIn(v.items[i][2]) : i \in 1..Len(v.items)}
      [] v.type = "list" -> UNION {SecretsIn(v.elems[i]) : i \in 1..Len(v.elems)}
      [] v.type = "MultiDict" ->
            UNION {IF v.items[i][1] \in SecretKeys
                   THEN {v.items[i][2][j].val : j \in 1..Len(v.items[i][2])}
                   ELSE {} : i \in 1..Len(v.items)}
      [] OTHER -> {}

\* the parameters before_request logs for request r
ParamsOf(r) == Or(r.json, Or(r.args, r.form))

\* C5: the string logged for a payload never contains the value that the
\* payload holds under "password", "passwd" or "pwd", wherever the key is.
C5_NoSecretLogged ==
    (logged # None /\ logged # Raise) =>
        \A v \in SecretsIn(ParamsOf(req)) : ~Contains(logged.val, v)

--------------------------------------------------------------------------
(* Properties of the log filter, checked under SpecFilter. *)

\* the session's uid as filter reads it
SessionUid == IF "userid" \in DOMAIN session THEN PyInt(session.userid) ELSE Anon

\* C10 as stated: filter accepts the record; in a request record.ip is the
\* X-Real-IP header if one is sent (an empty one read as none) and else the
\* socket address, and record.uid the session's userid or "anon"; outside a
\* request record.uid is the worker's and record.ip is empty.
C10_FilterFieldsAsStated ==
    record # None =>
        /\ record.ret = TRUE
        /\ req # None =>
              /\ record.ip = IF "X-Real-IP" \in DOMAIN req.headers
                                /\ req.headers["X-Real-IP"] # Str(<<>>)
                             THEN req.headers["X-Real-IP"]
                             ELSE req.remote_addr
              /\ record.uid = SessionUid
        /\ req = None => record.uid = WorkerUid /\ record.ip = Str(<<>>)

\* C10 amended: filter accepts the record and record.uid is as stated;
\* record.ip is as stated only while config.IS_LOCAL_DEV is not set; while
\* it is set record.ip is "local", in a request and outside.
C10_FilterFields ==
    record # None =>
        /\ record.ret = TRUE
        /\ record.uid = IF req # None THEN SessionUid ELSE WorkerUid
        /\ IS_LOCAL_DEV => record.ip = Local
        /\ (~IS_LOCAL_DEV /\ req = None) => record.ip = Str(<<>>)
        /\ (~IS_LOCAL_DEV /\ req # None) =>
              record.ip = IF "X-Real-IP" \in DOMAIN req.headers
                             /\ req.headers["X-Real-IP"] # Str(<<>>)
                          THEN req.headers["X-Real-IP"]
                          ELSE req.remote_addr

\* a record logged in a request with an X-Real-IP header, in local development
C10_Witness ==
    /\ record # None
    /\ IS_LOCAL_DEV
    /\ req # None
    /\ "X-Real-IP" \in DOMAIN req.headers
    /\ req.headers["X-Real-IP"] \in ClientIps
    /\ record.ip = Local

====
